---- MODULE Spec2Model ----
(***************************************************************************)
(* A model of the repertoire / rearrangement loaders of dataloading-mongo:  *)
(*   dataload/repertoire.py     Repertoire.repositoryInsertRepertoire       *)
(*   dataload/rearrangement.py  Rearrangement.getRepertoireInfo,            *)
(*                              Rearrangement.checkAIRRRequired             *)
(*   scripts/mixcr.py           MiXCR.processMiXcrFile                      *)
(*                                                                         *)
(* Python dictionaries (JSON documents, repository records) are functions  *)
(* from the keys they hold to values; "key in dict" is "key \in DOMAIN".   *)
(* Python's None is PyNone where a string is expected and NoId where a     *)
(* storage identifier is expected.                                         *)
(***************************************************************************)
EXTENDS Integers, Sequences, FiniteSets, TLC

VARIABLES
    repertoires,   \* the repository's repertoire collection, in storage order
    airr_map,      \* the logical field names the mapping service can resolve
    ncalls,        \* how many handler calls have been made (bounded)
    call,          \* the last repositoryInsertRepertoire call: input, result, writes
    link,          \* the last linkage resolution: file name, query result, result
    sequences,     \* the repository's rearrangement collection, in storage order
    load,          \* the file load in progress (processMiXcrFile)
    dataframe,     \* the batch handed to checkAIRRRequired: column -> content
    airr_fields,   \* the schema rows handed to checkAIRRRequired, in order
    check,         \* the last checkAIRRRequired call: batch before, result
    idcheck,       \* the last checkIDFields call: batch before, queries, result
    coercion,      \* the last mapToRepositoryType call: batch before, result
    genes          \* the gene-call value being decomposed and what was derived from it

batchVars == <<dataframe, airr_fields, check, idcheck, coercion, genes>>

vars == <<repertoires, airr_map, ncalls, call, link, sequences, load,
          dataframe, airr_fields, check, idcheck, coercion, genes>>

-----------------------------------------------------------------------------
(* Bounds *)

\* Handler calls explored from the empty repository.
MaxCalls == 4

-----------------------------------------------------------------------------
(* Values *)

\* None in a string-valued slot (a field value, a mapped field name).
PyNone == "<None>"

\* None where a storage identifier is expected: the handlers' failure signal.
NoId == 0

\* A document key that is not there (only used to build input documents).
Absent == "<absent>"

\* str(record_id): the stringified storage identifier.
IdStr(id) == ToString(id)

\* getDateTimeNowUTC(): the time of the call; its value steers nothing.
DateTimeNowUTC == "now"

EmptyDoc == [k \in {} |-> PyNone]

\* File names are sequences of characters; "" is the empty sequence and a
\* null file-name field is FileNone.
FileNone == <<PyNone>>

\* A one-key dictionary, or nothing when the value is Absent.
Entry(k, v) == IF v = Absent THEN EmptyDoc ELSE (k :> v)

-----------------------------------------------------------------------------
(* Mapping service: AIRRMap.getMapping restricted to the fields the         *)
(* handlers ask for.  A logical name the map cannot resolve yields None.    *)

LinkField == "ir_repertoire_link"        \* getRepertoireLinkIDField()
FileField == "ir_rearrangement_file_name" \* getRearrangementFileField()
CountField == "ir_rearrangement_count"    \* getRearrangementCountField()

AllMapped == {LinkField, FileField, CountField,
              "repertoire_id", "data_processing_id", "sample_processing_id"}

PhysicalName(name) ==
    CASE name = LinkField  -> "_id"
      [] name = FileField  -> "mixcr_file_name"
      [] name = CountField -> "ir_sequence_count"
      [] OTHER             -> name

getMapping(name) == IF name \in airr_map THEN PhysicalName(name) ELSE PyNone

-----------------------------------------------------------------------------
(* Repository (the driver behind self.repository and the Parser wrappers)  *)

\* A query {field: value}: a None value matches a null or a missing field.
FieldMatches(rec, field, value) ==
    IF field \in DOMAIN rec THEN rec[field] = value ELSE value = PyNone

\* repositoryGetRepertoires(field, value): the records whose field has the value.
getRepertoires(recs, field, value) ==
    SelectSeq(recs, LAMBDA rec : FieldMatches(rec, field, value))

\* insertRepertoire(doc, link_field): the stored record; the storage assigns id.
insertRepertoire(doc, link_field, id) == (link_field :> id) @@ doc

\* updateRepertoire(link_field, link_value, doc): $set of the document's
\* fields on the records whose link field has the value.
updateRepertoire(recs, link_field, link_value, doc) ==
    [i \in 1..Len(recs) |->
        IF link_field \in DOMAIN recs[i] /\ recs[i][link_field] = link_value
        THEN doc @@ recs[i] ELSE recs[i]]

\* What updateRepertoire returns: the identifier of the record it wrote,
\* None when it wrote none.
updateRepertoireResult(recs, link_field, link_value) ==
    IF \E i \in 1..Len(recs) :
           link_field \in DOMAIN recs[i] /\ recs[i][link_field] = link_value
    THEN link_value ELSE NoId

\* updateField(key_field, key_value, field, value).
updateField(recs, key_field, key_value, field, value) ==
    [i \in 1..Len(recs) |->
        IF key_field \in DOMAIN recs[i] /\ recs[i][key_field] = key_value
        THEN (field :> value) @@ recs[i] ELSE recs[i]]

\* A query that could not be run (the wrappers return None for it).
QueryFailed == <<NoId>>

\* s occurs in t as a contiguous run of characters.
IsSubstring(s, t) ==
    \E i \in 0..(Len(t) - Len(s)) : SubSeq(t, i + 1, i + Len(s)) = s

\* A record's file-name field matches the pattern {'$regex': filename}.
FileMatches(rec, field, filename) ==
    /\ field \in DOMAIN rec
    /\ rec[field] # FileNone
    /\ IsSubstring(filename, rec[field])

RECURSIVE MatchingIDs(_, _, _, _)
MatchingIDs(recs, id_field, field, filename) ==
    IF recs = <<>> THEN <<>>
    ELSE (IF FileMatches(Head(recs), field, filename)
          THEN <<Head(recs)[id_field]>> ELSE <<>>)
         \o MatchingIDs(Tail(recs), id_field, field, filename)

\* repositoryGetRepertoireIDs(search_field, search_name): the link identifiers
\* of the records whose file-name field matches, None when the query fails.
repositoryGetRepertoireIDs(recs, search_field, search_name, fault) ==
    IF fault = "query" THEN QueryFailed
    ELSE MatchingIDs(recs, getMapping(LinkField), search_field, search_name)

-----------------------------------------------------------------------------
(* Repertoire.repositoryInsertRepertoire                                    *)

\* One repository write issued by a handler.
Write(op, key_field, key_value, doc) ==
    [op |-> op, key_field |-> key_field, key_value |-> key_value, doc |-> doc]

\* What a handler call did: its return value (NoId is None), the exception
\* it raised if any, the writes it issued in order, and the collection after.
Outcome(result, raised, writes, recs) ==
    [result |-> result, raised |-> raised, writes |-> writes, recs |-> recs]

\* "return None" before any write.
Rejected(recs) == Outcome(NoId, "", <<>>, recs)

\* An uncaught exception before any write.
Raised(exc, recs) == Outcome(NoId, exc, <<>>, recs)

\* The identifier a document gives for a field: "" and a missing key are None.
IncomingId(json_document, field) ==
    IF field \in DOMAIN json_document
    THEN (IF json_document[field] = "" THEN PyNone ELSE json_document[field])
    ELSE PyNone

\* A scan that forgets to compare the sample_processing_id.
RECURSIVE ScanUpdateTargetNoSample(_, _, _, _, _)
ScanUpdateTargetNoSample(rep_array, i, fields, ids, link_value) ==
    IF i > Len(rep_array) THEN [status |-> "ok", link_value |-> link_value]
    ELSE LET rep == rep_array[i] IN
         IF rep[fields.data] # ids.data \/ rep[fields.rep] # ids.rep
         THEN ScanUpdateTargetNoSample(rep_array, i + 1, fields, ids, link_value)
         ELSE IF link_value = NoId
         THEN ScanUpdateTargetNoSample(rep_array, i + 1, fields, ids,
                                       rep[fields.link])
         ELSE [status |-> "dup", link_value |-> link_value]

\* The update-mode scan over more than one record with the repertoire_id:
\* the link value of the record whose triple equals the incoming one.
\* status "dup" is the early "return None", "KeyError" a record without
\* one of the fields read.
RECURSIVE ScanUpdateTarget(_, _, _, _, _)
ScanUpdateTarget(rep_array, i, fields, ids, link_value) ==
    IF i > Len(rep_array) THEN [status |-> "ok", link_value |-> link_value]
    ELSE LET rep == rep_array[i] IN
         IF fields.sample \notin DOMAIN rep
         THEN [status |-> "KeyError", link_value |-> link_value]
         ELSE IF rep[fields.sample] # ids.sample
         THEN ScanUpdateTarget(rep_array, i + 1, fields, ids, link_value)
         ELSE IF fields.data \notin DOMAIN rep
         THEN [status |-> "KeyError", link_value |-> link_value]
         ELSE IF rep[fields.data] # ids.data
         THEN ScanUpdateTarget(rep_array, i + 1, fields, ids, link_value)
         ELSE IF fields.rep \notin DOMAIN rep
         THEN [status |-> "KeyError", link_value |-> link_value]
         ELSE IF rep[fields.rep] # ids.rep
         THEN ScanUpdateTarget(rep_array, i + 1, fields, ids, link_value)
         ELSE IF link_value = NoId
         THEN ScanUpdateTarget(rep_array, i + 1, fields, ids, rep[fields.link])
         ELSE [status |-> "dup", link_value |-> link_value]

\* A duplicate loop without its elif: only data_processing_id distinguishes.
DistinguishableByDataOnly(rep, fields, ids) ==
    /\ fields.data \in DOMAIN rep
    /\ rep[fields.data] # ids.data
    /\ rep[fields.data] # ""
    /\ ids.data # PyNone
    /\ ids.data # ""

\* Insert mode: the existing record does not conflict with the incoming
\* document (the if / elif of the duplicate loop).
Distinguishable(rep, fields, ids) ==
    \/ /\ fields.data \in DOMAIN rep
       /\ rep[fields.data] # ids.data
       /\ rep[fields.data] # ""
       /\ ids.data # PyNone
       /\ ids.data # ""
    \/ /\ fields.sample \in DOMAIN rep
       /\ rep[fields.sample] # ids.sample
       /\ rep[fields.sample] # ""
       /\ ids.sample # PyNone
       /\ ids.sample # ""

\* Insert mode: duplicate stays True over the whole loop.
IsDuplicate(rep_array, fields, ids) ==
    \A i \in 1..Len(rep_array) : ~Distinguishable(rep_array[i], fields, ids)

\* An update that forgets the update time.
StampUpdateForgotten(json_document) == json_document

\* An update that stamps like an insert.
StampUpdateAsInsert(json_document) ==
    ("ir_created_at" :> DateTimeNowUTC)
    @@ ("ir_updated_at" :> DateTimeNowUTC)
    @@ json_document

\* Update mode: the document as written, with the update time stored in it.
StampUpdate(json_document) ==
    ("ir_updated_at" :> DateTimeNowUTC) @@ json_document

\* Insert mode: the document as written, with the creation and update times
\* and the rearrangement count initialised to 0.
StampInsert(json_document, count_field) ==
    (count_field :> 0)
    @@ ("ir_created_at" :> DateTimeNowUTC)
    @@ ("ir_updated_at" :> DateTimeNowUTC)
    @@ json_document

\* The update-mode branch, from the record count to the return.
UpdateBranch(recs, json_document, fields, ids, rep_array, fault) ==
    LET num_repertoires == Len(rep_array)
        scan == ScanUpdateTarget(rep_array, 1, fields, ids, NoId)
        link_repository_value ==
            IF num_repertoires = 1 THEN rep_array[1][fields.link]
            ELSE scan.link_value
        stamped == StampUpdate(json_document)
        written == fault # "write"
        record_id ==
            IF written
            THEN updateRepertoireResult(recs, fields.link, link_repository_value)
            ELSE NoId
    IN  IF num_repertoires = 0 THEN Rejected(recs)
        ELSE IF num_repertoires > 1 /\ scan.status = "dup" THEN Rejected(recs)
        ELSE IF num_repertoires > 1 /\ scan.status = "KeyError"
        THEN Raised("KeyError", recs)
        ELSE Outcome(record_id, "",
                     <<Write("updateRepertoire", fields.link,
                             link_repository_value, stamped)>>,
                     IF written
                     THEN updateRepertoire(recs, fields.link,
                                           link_repository_value, stamped)
                     ELSE recs)

\* A write-back that tests the repertoire_id for all three fields.
WriteBacksKeyedOnRepId(fields, ids, record_id) ==
    IF ids.rep = PyNone
    THEN << Write("updateField", fields.link, record_id,
                  fields.rep :> IdStr(record_id)),
            Write("updateField", fields.link, record_id,
                  fields.data :> IdStr(record_id)),
            Write("updateField", fields.link, record_id,
                  fields.sample :> IdStr(record_id)) >>
    ELSE <<>>

\* The write-back of the storage identifier into the identifier fields that
\* were missing on input, in the order of the code.
WriteBacks(fields, ids, record_id) ==
    (IF ids.rep = PyNone
     THEN <<Write("updateField", fields.link, record_id,
                  fields.rep :> IdStr(record_id))>> ELSE <<>>)
    \o (IF ids.data = PyNone
        THEN <<Write("updateField", fields.link, record_id,
                     fields.data :> IdStr(record_id))>> ELSE <<>>)
    \o (IF ids.sample = PyNone
        THEN <<Write("updateField", fields.link, record_id,
                     fields.sample :> IdStr(record_id))>> ELSE <<>>)

\* The collection after the updateField calls of a write-back.
RECURSIVE ApplyWriteBacks(_, _)
ApplyWriteBacks(recs, writes) ==
    IF writes = <<>> THEN recs
    ELSE LET w == Head(writes)
             field == CHOOSE f \in DOMAIN w.doc : TRUE
         IN  ApplyWriteBacks(
                 updateField(recs, w.key_field, w.key_value, field, w.doc[field]),
                 Tail(writes))

\* The insert-mode branch, from the duplicate check to the return.
InsertBranch(recs, json_document, fields, ids, rep_array, fault) ==
    LET num_repertoires == Len(rep_array)
        duplicate == IsDuplicate(rep_array, fields, ids)
        rep == rep_array[num_repertoires]
        count_field == getMapping(CountField)
        document == StampInsert(json_document, count_field)
        record_id == IF fault = "write" THEN NoId ELSE Len(recs) + 1
        insert == Write("insertRepertoire", fields.link, record_id, document)
        backs == WriteBacks(fields, ids, record_id)
    IN  IF num_repertoires # 0 /\ duplicate
        THEN (IF {fields.rep, fields.data, fields.sample} \subseteq DOMAIN rep
              THEN Rejected(recs) ELSE Raised("KeyError", recs))
        ELSE IF count_field = PyNone THEN Raised("NameError", recs)
        ELSE IF record_id = NoId THEN Outcome(NoId, "", <<insert>>, recs)
        ELSE Outcome(record_id, "", <<insert>> \o backs,
                     ApplyWriteBacks(
                         Append(recs, insertRepertoire(document, fields.link,
                                                       record_id)),
                         backs))

\* A file-name test that lets every document through.
FileNameHeldNever(updateOnly, idarray) == FALSE

\* "Check to see if the file exists": in insert mode a document is refused
\* when the query for its file names found a record.
FileNameHeld(updateOnly, idarray) == ~updateOnly /\ Len(idarray) # 0

\* repositoryInsertRepertoire(json_document) on the collection recs, with
\* repository.updateOnly() = updateOnly.  fault names what the repository
\* fails at during the call: "query", "write" or nothing ("none").
repositoryInsertRepertoire(recs, json_document, updateOnly, fault) ==
    LET file_repository_field == getMapping(FileField)
        link_repository_field == getMapping(LinkField)
    IN  IF file_repository_field \notin DOMAIN json_document
        THEN Raised("KeyError", recs)
        ELSE
    LET file_names == json_document[file_repository_field]
        idarray == IF file_names = FileNone \/ file_names = <<>> THEN <<>>
                   ELSE repositoryGetRepertoireIDs(recs, file_repository_field,
                                                   file_names, fault)
        rep_id_field == getMapping("repertoire_id")
        fields == [rep    |-> rep_id_field,
                   data   |-> getMapping("data_processing_id"),
                   sample |-> getMapping("sample_processing_id"),
                   link   |-> link_repository_field]
        ids == [rep    |-> IncomingId(json_document, fields.rep),
                data   |-> IncomingId(json_document, fields.data),
                sample |-> IncomingId(json_document, fields.sample)]
        rep_array == getRepertoires(recs, rep_id_field, ids.rep)
    IN  IF idarray = QueryFailed THEN Rejected(recs)
        ELSE IF FileNameHeld(updateOnly, idarray) THEN Rejected(recs)
        ELSE IF rep_id_field = PyNone THEN Rejected(recs)
        ELSE IF updateOnly
        THEN UpdateBranch(recs, json_document, fields, ids, rep_array, fault)
        ELSE InsertBranch(recs, json_document, fields, ids, rep_array, fault)

-----------------------------------------------------------------------------
(* Linkage resolution                                                      *)

\* What a linkage resolution did: the query's answer, the identifier
\* returned (NoId is the failure signal) and the exception raised if any.
Resolution(idarray, result, raised) ==
    [idarray |-> idarray, result |-> result, raised |-> raised]

\* A resolution that takes the first match however many there are.
getRepertoireInfoFirstMatch(recs, filename, fault) ==
    LET file_field == getMapping(FileField)
        idarray == repositoryGetRepertoireIDs(recs, file_field, filename, fault)
    IN  IF file_field = PyNone THEN Resolution(<<>>, NoId, "NameError")
        ELSE IF idarray = QueryFailed THEN Resolution(idarray, NoId, "")
        ELSE IF Len(idarray) = 0 THEN Resolution(idarray, NoId, "")
        ELSE Resolution(idarray, idarray[1], "")

\* Rearrangement.getRepertoireInfo(filename).  The branch for an unmapped
\* file field formats its message with a name that is not defined and so
\* raises NameError.
getRepertoireInfo(recs, filename, fault) ==
    LET file_field == getMapping(FileField)
        idarray == repositoryGetRepertoireIDs(recs, file_field, filename, fault)
        num_repertoires == Len(idarray)
    IN  IF file_field = PyNone THEN Resolution(<<>>, NoId, "NameError")
        ELSE IF idarray = QueryFailed THEN Resolution(idarray, NoId, "")
        ELSE IF num_repertoires = 0 THEN Resolution(idarray, NoId, "")
        ELSE IF num_repertoires > 1 THEN Resolution(idarray, NoId, "")
        ELSE Resolution(idarray, idarray[1], "")

\* filename.replace(".gz", ""), ".gz" being one character of the alphabet.
RemoveGz(filename) == SelectSeq(filename, LAMBDA c : c # ".gz")

\* The lookup that opens MiXCR.processMiXcrFile: samples.find on
\* mixcr_file_name by regular expression, then the same three-way test.
\* A driver error is an exception.
findSample(recs, filename, fault) ==
    LET stripped == RemoveGz(filename)
        idarray == MatchingIDs(recs, "_id", "mixcr_file_name", stripped)
        num_samples == Len(idarray)
    IN  IF fault = "query" THEN Resolution(<<>>, NoId, "PyMongoError")
        ELSE IF num_samples = 0 THEN Resolution(idarray, NoId, "")
        ELSE IF num_samples > 1 THEN Resolution(idarray, NoId, "")
        ELSE Resolution(idarray, idarray[1], "")

\* A count of the records this load has written and no others.
countLoadedRecords(seqs, id) == load.total_records

\* sequences.find({"ir_project_sample_id": {'$eq': id}}).count()
countSequences(seqs, id) ==
    Len(SelectSeq(seqs, LAMBDA r : r["ir_project_sample_id"] = id))

\* Chunk records whose identifier is offset by the number of their row.
ChunkRecordsByRow(n, id) ==
    [i \in 1..n |-> [ir_annotation_tool |-> "MiXCR",
                     ir_project_sample_id |-> id + i]]

\* The records of one chunk as insert_many stores them.
ChunkRecords(n, id) ==
    [i \in 1..n |-> [ir_annotation_tool |-> "MiXCR", ir_project_sample_id |-> id]]

-----------------------------------------------------------------------------
(* Specification of the repertoire loader: insert-mode and update-mode     *)
(* calls of repositoryInsertRepertoire on an initially empty repository.   *)

NoCall == [op |-> "none", doc |-> EmptyDoc, fault |-> "none", pre |-> <<>>,
           result |-> NoId, raised |-> "", writes |-> <<>>]

NoLink == [op |-> "none", filename |-> <<>>, idarray |-> <<>>,
           result |-> NoId, raised |-> ""]

\* No checkAIRRRequired call made yet.
NoCheck == [runs |-> 0, pre |-> EmptyDoc, result |-> TRUE]

\* No checkIDFields call made yet.
NoIdCheck == [runs |-> 0, link_id |-> NoId, pre |-> EmptyDoc,
              result |-> TRUE, queries |-> <<>>]

\* No mapToRepositoryType call made yet.
NoCoercion == [runs |-> 0, pre |-> <<>>, result |-> TRUE]

\* No gene-call value taken up yet.
NoGenes == [pc |-> "idle", input |-> [type |-> "NoneType", text |-> <<>>],
            call |-> <<>>, gene |-> <<>>, family |-> <<>>,
            locus |-> <<>>, warnings |-> <<>>,
            order |-> <<>>, again |-> <<>>]

\* The state of one file load.  file is the chunk sizes of the whole file,
\* chunks the part of it still to be read, steps what the loop body did to the
\* chunk it handled last, pre_sequences and pre_repertoires the two
\* collections as they were when the load began.
NoLoad == [pc |-> "idle", filename |-> <<>>, sample_id |-> NoId,
           chunks |-> <<>>, total_records |-> 0, result |-> FALSE,
           raised |-> "", file |-> <<>>, steps |-> <<>>,
           pre_sequences |-> <<>>, pre_repertoires |-> <<>>]

\* No handler is running.
Idle == call.op = "none" /\ link.op = "none" /\ load.pc = "idle"

\* An incoming repertoire document.
Doc(rep, data, sample, file) ==
    Entry("repertoire_id", rep) @@ Entry("data_processing_id", data)
    @@ Entry("sample_processing_id", sample)
    @@ Entry(PhysicalName(FileField), file)

\* Documents without rearrangement files: each identifier absent, empty or
\* supplied, with two values for data_processing_id.
IdDocs ==
    { Doc(rep, data, sample, FileNone) :
        rep \in {Absent, "", "A"},
        data \in {Absent, "", "A"},
        sample \in {Absent, "", "A"} }

Faults == {"none", "query", "write"}

\* One call of repositoryInsertRepertoire, recorded in call.  A fault is
\* recorded only for a call that ran into it.
RepertoireCall(json_document, updateOnly, fault) ==
    /\ Idle
    /\ ncalls < MaxCalls
    /\ \E out \in {repositoryInsertRepertoire(repertoires, json_document,
                                              updateOnly, fault)} :
        /\ \/ fault = "none"
           \/ out # repositoryInsertRepertoire(repertoires, json_document,
                                               updateOnly, "none")
        /\ ncalls' = ncalls + 1
        /\ repertoires' = out.recs
        /\ call' = [op |-> IF updateOnly THEN "update" ELSE "insert",
                    doc |-> json_document, fault |-> fault,
                    pre |-> repertoires, result |-> out.result,
                    raised |-> out.raised, writes |-> out.writes]
        /\ UNCHANGED <<airr_map, link, sequences, load>>
        /\ UNCHANGED batchVars

InsertModeCall ==
    \E json_document \in IdDocs, fault \in {"none", "write"} :
        RepertoireCall(json_document, FALSE, fault)

UpdateModeCall ==
    \E json_document \in IdDocs, fault \in {"none", "write"} :
        RepertoireCall(json_document, TRUE, fault)

\* The call returns to the job that made it, which goes on to its next document.
Return ==
    /\ ~Idle
    /\ load.pc \in {"idle", "done"}
    /\ call' = NoCall
    /\ link' = NoLink
    /\ load' = NoLoad
    /\ UNCHANGED <<repertoires, airr_map, ncalls, sequences>>
    /\ UNCHANGED batchVars

Init ==
    /\ repertoires = <<>>
    /\ airr_map = AllMapped
    /\ ncalls = 0
    /\ call = NoCall
    /\ link = NoLink
    /\ sequences = <<>>
    /\ load = NoLoad
    /\ dataframe = EmptyDoc
    /\ airr_fields = <<>>
    /\ check = NoCheck
    /\ genes = NoGenes
    /\ coercion = NoCoercion
    /\ idcheck = NoIdCheck

Next == InsertModeCall \/ UpdateModeCall \/ Return

Spec == Init /\ [][Next]_vars

\* The same job making insert-mode calls only.
NextInsert == InsertModeCall \/ Return

SpecInsert == Init /\ [][NextInsert]_vars

-----------------------------------------------------------------------------
(* Vocabulary of the properties of repositoryInsertRepertoire.  They are   *)
(* stated over the recorded call: the collection before (call.pre), the    *)
(* incoming document, the writes issued, the result, and the collection    *)
(* after (repertoires).                                                    *)

IdFields == {"repertoire_id", "data_processing_id", "sample_processing_id"}

\* The document gives the field, and not as the empty string.
Supplied(doc, f) == f \in DOMAIN doc /\ doc[f] # ""

\* The incoming value of a field, "missing" when absent or empty.
Incoming(doc, f) == IF Supplied(doc, f) THEN doc[f] ELSE PyNone

\* The stored value of a field, "missing" when the record has no such key.
Stored(rec, f) == IF f \in DOMAIN rec THEN rec[f] ELSE PyNone

\* All three identifiers of a record are present and non-empty.
FullTriple(rec) == \A f \in IdFields : Stored(rec, f) \notin {PyNone, ""}

\* S: the records, before the call, that share the incoming repertoire_id.
SharingRepertoireId ==
    { i \in 1..Len(call.pre) :
        Stored(call.pre[i], "repertoire_id") = Incoming(call.doc, "repertoire_id") }

\* The records of S whose triple equals the incoming triple.
TripleMatches ==
    { i \in SharingRepertoireId :
        \A f \in IdFields : Stored(call.pre[i], f) = Incoming(call.doc, f) }

\* The call returned None without having issued any repository write.
RejectedWithoutWrite ==
    call.result = NoId /\ call.raised = "" /\ call.writes = <<>>

\* The call went on to insertRepertoire.
InsertIssued ==
    call.writes # <<>> /\ Head(call.writes).op = "insertRepertoire"

\* The writes of the call with the given operation.
WritesOf(op) == { i \in 1..Len(call.writes) : call.writes[i].op = op }

-----------------------------------------------------------------------------
\* C2: after any sequence of insert-mode calls on a repository without
\* duplicate triples, no two committed records have the same triple of
\* present, non-empty identifiers.  (The claim as stated; the duplicate
\* loop accepts a document as soon as ONE record of S differs from it.)
C2_UniqueTriples ==
    \A i, j \in 1..Len(repertoires) :
        (i < j /\ FullTriple(repertoires[i]) /\ FullTriple(repertoires[j]))
        => \E f \in IdFields : repertoires[i][f] # repertoires[j][f]

-----------------------------------------------------------------------------
\* Distinguishable as the claim words it: the incoming identifier is present,
\* non-empty and differs from the record's.
ClaimDistinguishable(rec, doc) ==
    \E f \in {"data_processing_id", "sample_processing_id"} :
        Supplied(doc, f) /\ Stored(rec, f) # doc[f]

\* Distinguishable as amended: the record's identifier must be present and
\* non-empty as well.
AmendedDistinguishable(rec, doc) ==
    \E f \in {"data_processing_id", "sample_processing_id"} :
        /\ Supplied(doc, f)
        /\ Stored(rec, f) \notin {PyNone, ""}
        /\ Stored(rec, f) # doc[f]

-----------------------------------------------------------------------------
-----------------------------------------------------------------------------
\* The call met one of the uniqueness conflicts: update mode without a record
\* for the repertoire_id, update mode without exactly one record for the
\* triple, insert mode with a document no record of S is distinguished from.
UniquenessConflict ==
    \/ call.op = "update" /\ SharingRepertoireId = {}
    \/ /\ call.op = "update"
       /\ Cardinality(SharingRepertoireId) > 1
       /\ Cardinality(TripleMatches) # 1
    \/ /\ call.op = "insert"
       /\ SharingRepertoireId # {}
       /\ \A i \in SharingRepertoireId :
              ~AmendedDistinguishable(call.pre[i], call.doc)

\* C5: a call that meets a uniqueness conflict issues no repository write
\* (insertRepertoire, updateRepertoire, updateField) and leaves the
\* repertoire records unchanged.
C5_NoWriteOnConflict ==
    UniquenessConflict => (call.writes = <<>> /\ repertoires = call.pre)

-----------------------------------------------------------------------------
\* The update target the claim names: the sole record of S, or among several
\* the one record whose triple equals the incoming triple.
ResolvedTargets ==
    IF Cardinality(SharingRepertoireId) = 1 THEN SharingRepertoireId
    ELSE IF Cardinality(TripleMatches) = 1 THEN TripleMatches
    ELSE {}

\* C6: in update mode, once a target is resolved (the sole record with the
\* incoming repertoire_id, whatever its other identifiers), exactly one
\* updateRepertoire is issued, keyed by the link field and the target's link
\* identifier, its document carries ir_updated_at, and the call returns what
\* that write returned: the target's identifier, with the document's fields
\* stored on the target, or None with nothing changed.
C6_UpdateIssuesOneWrite ==
    (call.op = "update" /\ ResolvedTargets # {}) =>
        \A t \in ResolvedTargets :
            /\ Len(call.writes) = 1
            /\ call.writes[1].op = "updateRepertoire"
            /\ call.writes[1].key_field = "_id"
            /\ call.writes[1].key_value = call.pre[t]["_id"]
            /\ "ir_updated_at" \in DOMAIN call.writes[1].doc
            /\ call.writes[1].doc["ir_updated_at"] = DateTimeNowUTC
            /\ \A f \in DOMAIN call.doc :
                   call.writes[1].doc[f] = call.doc[f]
            /\ call.result \in {NoId, call.pre[t]["_id"]}
            /\ call.result = NoId => repertoires = call.pre
            /\ call.result # NoId =>
                   /\ \A f \in DOMAIN call.writes[1].doc :
                          repertoires[t][f] = call.writes[1].doc[f]
                   /\ \A i \in 1..Len(call.pre) :
                          i # t => repertoires[i] = call.pre[i]

\* C6 witness: an update of the sole record with the repertoire_id, whose
\* data_processing_id differs from the incoming one, that was written.
C6_Witness ==
    /\ call.op = "update"
    /\ Cardinality(SharingRepertoireId) = 1
    /\ TripleMatches = {}
    /\ call.result # NoId
    /\ Len(call.writes) = 1

-----------------------------------------------------------------------------
\* C7: after any sequence of successful insert-mode and update-mode calls on
\* an initially empty repository, every committed repertoire record has
\* non-empty repertoire_id, data_processing_id and sample_processing_id.
\* (The claim as stated; an update writes the document's identifiers as they
\* come, the empty string included.)
C7_AllIdentifiersNonEmpty ==
    \A i \in 1..Len(repertoires) : FullTriple(repertoires[i])

-----------------------------------------------------------------------------
\* The updateField writes of the call that set field f.
WriteBacksOf(f) ==
    { i \in WritesOf("updateField") : f \in DOMAIN call.writes[i].doc }

\* C8: after a successful insert, each identifier field that was absent or
\* empty in the incoming document holds the stringified storage identifier
\* the insert returned, and each field supplied non-empty holds the supplied
\* value with no write-back for it; a failed insert issues no write-back.
C8_WriteBackOfMissingIds ==
    call.op = "insert" =>
        IF call.result # NoId
        THEN \E i \in 1..Len(repertoires) :
                /\ repertoires[i]["_id"] = call.result
                /\ \A j \in 1..Len(repertoires) :
                       repertoires[j]["_id"] = call.result => j = i
                /\ \A f \in IdFields :
                       IF Supplied(call.doc, f)
                       THEN /\ f \in DOMAIN repertoires[i]
                            /\ repertoires[i][f] = call.doc[f]
                            /\ WriteBacksOf(f) = {}
                       ELSE /\ f \in DOMAIN repertoires[i]
                            /\ repertoires[i][f] = ToString(call.result)
                            /\ \E w \in WriteBacksOf(f) :
                                   call.writes[w].key_value = call.result
        ELSE WritesOf("updateField") = {}

\* C8 witness: a successful insert of a document without repertoire_id, with
\* an empty sample_processing_id and a supplied data_processing_id.
C8_Witness ==
    /\ call.op = "insert"
    /\ call.result # NoId
    /\ "repertoire_id" \notin DOMAIN call.doc
    /\ Supplied(call.doc, "data_processing_id")
    /\ "sample_processing_id" \in DOMAIN call.doc
    /\ call.doc["sample_processing_id"] = ""

-----------------------------------------------------------------------------
\* C9: ir_created_at and the cached count (0) are set on the document exactly
\* when it is written by an insert-mode call; the document an update-mode
\* call writes is the incoming document with ir_updated_at added and nothing
\* else, so it carries neither ir_created_at nor the count field.
C9_CreationFieldsOnlyOnInsert ==
    \A w \in WritesOf("insertRepertoire") \cup WritesOf("updateRepertoire") :
        LET written == call.writes[w].doc IN
        /\ call.writes[w].op = "insertRepertoire" <=> call.op = "insert"
        /\ "ir_updated_at" \in DOMAIN written
        /\ IF call.op = "insert"
           THEN /\ "ir_created_at" \in DOMAIN written
                /\ "ir_sequence_count" \in DOMAIN written
                /\ written["ir_sequence_count"] = 0
           ELSE /\ DOMAIN written = DOMAIN call.doc \cup {"ir_updated_at"}
                /\ "ir_created_at" \notin DOMAIN written
                /\ "ir_sequence_count" \notin DOMAIN written

\* C9 witness: an update-mode call that wrote its document to a record
\* created by an earlier insert.
C9_Witness ==
    /\ call.op = "update"
    /\ call.result # NoId
    /\ WritesOf("updateRepertoire") # {}

-----------------------------------------------------------------------------
(* Specification of linkage: repertoires with rearrangement files are      *)
(* inserted and updated, file names are resolved by getRepertoireInfo, and *)
(* MiXCR files are loaded chunk by chunk.                                  *)

\* Calls (repertoire loads, resolutions, file loads) explored by SpecLink.
MaxLinkCalls == 3

\* Chunks read from one file, and rows per chunk.
MaxChunks == 3
MaxRows == 2

\* File-name fields of incoming repertoire documents.
FileValues == {FileNone, <<>>, <<"a">>, <<"a", "b">>}

\* Names of annotation files being loaded.
FileNames == {<<"a">>, <<"b">>, <<"a", "b">>, <<"a", ".gz">>}

\* Documents with rearrangement files; the repertoire_id is left to the
\* repository or names the first record.
LinkDocs ==
    { Doc(rep, Absent, Absent, file) :
        rep \in {Absent, IdStr(1)}, file \in FileValues }

\* The mapping service either resolves every field or lacks the file field.
InitLink ==
    /\ repertoires = <<>>
    /\ airr_map \in {AllMapped, AllMapped \ {FileField}}
    /\ ncalls = 0
    /\ call = NoCall
    /\ link = NoLink
    /\ sequences = <<>>
    /\ load = NoLoad
    /\ dataframe = EmptyDoc
    /\ airr_fields = <<>>
    /\ check = NoCheck
    /\ genes = NoGenes
    /\ coercion = NoCoercion
    /\ idcheck = NoIdCheck

InsertLinkCall ==
    \E json_document \in LinkDocs, fault \in Faults :
        /\ ncalls < MaxLinkCalls
        /\ RepertoireCall(json_document, FALSE, fault)

UpdateLinkCall ==
    \E json_document \in LinkDocs, fault \in Faults :
        /\ ncalls < MaxLinkCalls
        /\ RepertoireCall(json_document, TRUE, fault)

\* One call of getRepertoireInfo, recorded in link.
GetRepertoireInfoCall ==
    \E filename \in FileNames, fault \in {"none", "query"} :
        LET out == getRepertoireInfo(repertoires, filename, fault) IN
        /\ Idle
        /\ ncalls < MaxLinkCalls
        /\ ncalls' = ncalls + 1
        /\ fault = "none" \/ out # getRepertoireInfo(repertoires, filename, "none")
        /\ link' = [op |-> "getRepertoireInfo", filename |-> filename,
                    idarray |-> out.idarray, result |-> out.result,
                    raised |-> out.raised]
        /\ UNCHANGED <<repertoires, airr_map, call, sequences, load>>
        /\ UNCHANGED batchVars

\* File names none of which occurs within another, so that the repository's
\* pattern match is a match of the whole name.
ExactFileNames == {<<"a">>, <<"b">>}

\* Documents whose file-name field is null, empty or one of these names.
ExactFileDocs ==
    { Doc(rep, Absent, Absent, file) :
        rep \in {Absent, IdStr(1)},
        file \in {FileNone, <<>>} \cup ExactFileNames }

InsertFileCall ==
    \E json_document \in ExactFileDocs, fault \in Faults :
        /\ ncalls < MaxLinkCalls
        /\ RepertoireCall(json_document, FALSE, fault)

UpdateFileCall ==
    \E json_document \in ExactFileDocs, fault \in Faults :
        /\ ncalls < MaxLinkCalls
        /\ RepertoireCall(json_document, TRUE, fault)

\* getRepertoireInfo for one of the names.
ResolveFileCall ==
    \E filename \in ExactFileNames, fault \in {"none", "query"} :
        LET out == getRepertoireInfo(repertoires, filename, fault) IN
        /\ Idle
        /\ ncalls < MaxLinkCalls
        /\ ncalls' = ncalls + 1
        /\ fault = "none" \/ out # getRepertoireInfo(repertoires, filename, "none")
        /\ link' = [op |-> "getRepertoireInfo", filename |-> filename,
                    idarray |-> out.idarray, result |-> out.result,
                    raised |-> out.raised]
        /\ UNCHANGED <<repertoires, airr_map, call, sequences, load>>
        /\ UNCHANGED batchVars

NextFile == InsertFileCall \/ UpdateFileCall \/ ResolveFileCall \/ Return

SpecFile == InitLink /\ [][NextFile]_vars

\* The chunks read_table cuts a file into, as row counts: every chunk has
\* chunk_size rows but the last, which has what is left.
FileChunks ==
    { chunks \in UNION { [1..n -> 1..MaxRows] : n \in 0..MaxChunks } :
        \A i \in 1..(Len(chunks) - 1) : chunks[i] = chunks[1] }

\* processMiXcrFile up to the chunk loop: the sample lookup, recorded in link,
\* and the reader over the file's chunks (given by their row counts).
MiXcrOpen ==
    \E filename \in FileNames, fault \in {"none", "query"},
       chunks \in FileChunks :
        LET out == findSample(repertoires, filename, fault) IN
        /\ Idle
        /\ ncalls < MaxLinkCalls
        /\ ncalls' = ncalls + 1
        /\ link' = [op |-> "processMiXcrFile", filename |-> filename,
                    idarray |-> out.idarray, result |-> out.result,
                    raised |-> out.raised]
        /\ load' = IF out.result = NoId
                   THEN [NoLoad EXCEPT !.pc = "done", !.filename = filename,
                                       !.raised = out.raised,
                                       !.file = chunks,
                                       !.pre_sequences = sequences,
                                       !.pre_repertoires = repertoires]
                   ELSE [NoLoad EXCEPT !.pc = "chunks", !.filename = filename,
                                       !.sample_id = out.result,
                                       !.chunks = chunks, !.file = chunks,
                                       !.pre_sequences = sequences,
                                       !.pre_repertoires = repertoires]
        /\ UNCHANGED <<repertoires, airr_map, call, sequences>>
        /\ UNCHANGED batchVars

\* What the loop body does to a chunk, in order: the columns are renamed, the
\* junction columns derived, the three gene calls decomposed, the constant
\* columns assigned, and the records handed to insert_many.
ChunkSteps == <<"rename", "junction", "processGene", "constants", "insert_many">>

\* A chunk loop that undoes the load's writes when a chunk fails.
MiXcrChunkRollback ==
    \E fault \in {"none", "write"} :
        /\ load.pc = "chunks"
        /\ load.chunks # <<>>
        /\ IF fault = "write"
           THEN /\ sequences' = load.pre_sequences
                /\ load' = [load EXCEPT !.pc = "done", !.steps = ChunkSteps,
                                        !.raised = "PyMongoError"]
           ELSE /\ sequences' = sequences \o ChunkRecords(Head(load.chunks),
                                                            load.sample_id)
                /\ load' = [load EXCEPT
                               !.chunks = Tail(load.chunks),
                               !.steps = ChunkSteps,
                               !.total_records = @ + Head(load.chunks)]
        /\ UNCHANGED <<repertoires, airr_map, ncalls, call, link>>
        /\ UNCHANGED batchVars

\* A chunk loop that refreshes the cached count after every chunk it writes.
MiXcrChunkCounting ==
    \E fault \in {"none", "write"} :
        /\ load.pc = "chunks"
        /\ load.chunks # <<>>
        /\ IF fault = "write"
           THEN \E written \in 0..(Head(load.chunks) - 1) :
                /\ sequences' = sequences \o ChunkRecords(written, load.sample_id)
                /\ load' = [load EXCEPT !.pc = "done", !.steps = ChunkSteps,
                                        !.raised = "PyMongoError"]
                /\ UNCHANGED repertoires
           ELSE /\ sequences' = sequences \o ChunkRecords(Head(load.chunks),
                                                            load.sample_id)
                /\ repertoires' = updateField(repertoires, "_id", load.sample_id,
                                       "ir_sequence_count",
                                       countSequences(sequences', load.sample_id))
                /\ load' = [load EXCEPT
                               !.chunks = Tail(load.chunks),
                               !.steps = ChunkSteps,
                               !.total_records = @ + Head(load.chunks)]
        /\ UNCHANGED <<airr_map, ncalls, call, link>>
        /\ UNCHANGED batchVars

\* One iteration of the chunk loop: the chunk's records are tagged with the
\* sample identifier and inserted.  insert_many may raise, which ends the load;
\* it writes in order, so the records before the failing one stay written.
MiXcrChunk ==
    \E fault \in {"none", "write"} :
        /\ load.pc = "chunks"
        /\ load.chunks # <<>>
        /\ IF fault = "write"
           THEN \E written \in 0..(Head(load.chunks) - 1) :
                /\ sequences' = sequences \o ChunkRecords(written, load.sample_id)
                /\ load' = [load EXCEPT !.pc = "done", !.steps = ChunkSteps,
                                        !.raised = "PyMongoError"]
           ELSE /\ sequences' = sequences \o ChunkRecords(Head(load.chunks),
                                                            load.sample_id)
                /\ load' = [load EXCEPT
                               !.chunks = Tail(load.chunks),
                               !.steps = ChunkSteps,
                               !.total_records = @ + Head(load.chunks)]
        /\ UNCHANGED <<repertoires, airr_map, ncalls, call, link>>
        /\ UNCHANGED batchVars

\* After the last chunk: the sample's cached count is set to the number of
\* rearrangements stored for it, and the load returns True.
MiXcrFinish ==
    /\ load.pc = "chunks"
    /\ load.chunks = <<>>
    /\ repertoires' = updateField(repertoires, "_id", load.sample_id,
                                   "ir_sequence_count",
                                   countSequences(sequences, load.sample_id))
    /\ load' = [load EXCEPT !.pc = "done", !.result = TRUE]
    /\ UNCHANGED <<airr_map, ncalls, call, link, sequences>>
    /\ UNCHANGED batchVars

NextLink ==
    \/ InsertLinkCall
    \/ UpdateLinkCall
    \/ GetRepertoireInfoCall
    \/ MiXcrOpen
    \/ MiXcrChunk
    \/ MiXcrFinish
    \/ Return

SpecLink == InitLink /\ [][NextLink]_vars

-----------------------------------------------------------------------------
\* C1: linkage resolution (getRepertoireInfo, and the lookup that opens
\* processMiXcrFile) returns a repertoire identifier if and only if the
\* repository query for the file name returned exactly one match, and then
\* that match's identifier; for no match and for two or more matches it
\* returns the failure signal, and processMiXcrFile then loads nothing.
C1_LinkageThreeWay ==
    (link.op # "none" /\ link.raised = "") =>
        /\ link.result # NoId <=>
               (link.idarray # QueryFailed /\ Len(link.idarray) = 1)
        /\ link.result # NoId => link.result = link.idarray[1]
        /\ link.op = "processMiXcrFile" =>
               IF link.result = NoId
               THEN load.pc = "done" /\ load.result = FALSE
               ELSE load.sample_id = link.result

\* C1 witness: getRepertoireInfo resolved a file name that only the second
\* of several repertoires holds.
C1_Witness ==
    /\ link.op = "getRepertoireInfo"
    /\ Len(repertoires) > 1
    /\ link.idarray = <<2>>
    /\ link.result = 2

-----------------------------------------------------------------------------
(* Rearrangement.checkAIRRRequired *)

\* Schema rows in the mapping handed to one call.
MaxFields == 2

\* checkAIRRRequired calls made on one batch.
MaxChecks == 2

\* Python's True and False where a schema cell may also hold a string, and
\* the null that fills an empty cell or a whole column.
PyTrue == "<True>"
PyFalse == "<False>"
NaN == "<nan>"

\* What a cell of a column that came with the data holds.
Data == "data"

\* "if x:" on a schema cell.
Truthy(x) == x \notin {PyFalse, PyNone, ""}

\* row["airr_required"] == "TRUE" or row["airr_required"] == True
IsRequired(row) ==
    row.airr_required = "TRUE" \/ row.airr_required = PyTrue

\* dataframe[repository_field] = np.nan
SetColumn(df, repository_field, value) ==
    (repository_field :> value) @@ df

\* What one call leaves behind: the batch and the returned boolean.
Checked(df, result) == [dataframe |-> df, result |-> result]

\* A validator that rejects every missing required field, nullable or not.
RECURSIVE checkAIRRRequiredNoFill(_, _, _)
checkAIRRRequiredNoFill(df, rows, index) ==
    IF index > Len(rows) THEN Checked(df, TRUE)
    ELSE LET row == rows[index] IN
         IF IsRequired(row) /\ row.repository \notin DOMAIN df
         THEN Checked(df, FALSE)
         ELSE checkAIRRRequiredNoFill(df, rows, index + 1)

\* A validator that also rejects a required field whose column is there but
\* holds only nulls.
RECURSIVE checkAIRRRequiredRejectNull(_, _, _)
checkAIRRRequiredRejectNull(df, rows, index) ==
    IF index > Len(rows) THEN Checked(df, TRUE)
    ELSE LET row == rows[index]
             repository_field == row.repository
         IN  IF ~IsRequired(row)
             THEN checkAIRRRequiredRejectNull(df, rows, index + 1)
             ELSE IF repository_field \in DOMAIN df
             THEN IF df[repository_field] = NaN
                  THEN Checked(df, FALSE)
                  ELSE checkAIRRRequiredRejectNull(df, rows, index + 1)
             ELSE IF Truthy(row.airr_nullable)
             THEN checkAIRRRequiredRejectNull(
                      SetColumn(df, repository_field, NaN), rows, index + 1)
             ELSE Checked(df, FALSE)

\* The loop over the schema rows from row `index` on: a required field the
\* batch lacks is added as a null column if the row is nullable and ends the
\* check with False if it is not.
RECURSIVE checkAIRRRequired(_, _, _)
checkAIRRRequired(df, rows, index) ==
    IF index > Len(rows) THEN Checked(df, TRUE)
    ELSE LET row == rows[index]
             repository_field == row.repository
         IN  IF IsRequired(row)
             THEN IF repository_field \notin DOMAIN df
                  THEN IF Truthy(row.airr_nullable)
                       THEN checkAIRRRequired(
                                SetColumn(df, repository_field, NaN),
                                rows, index + 1)
                       ELSE Checked(df, FALSE)
                  ELSE checkAIRRRequired(df, rows, index + 1)
             ELSE checkAIRRRequired(df, rows, index + 1)

\* The repository names of the schema's fields.
RepositoryFields == {"v_call", "junction", "rev_comp"}

\* A schema row: the field's repository name and its two flags.  airr_required is a
\* boolean, the string form of one, or empty; airr_nullable is a boolean.
SchemaRows ==
    [repository : RepositoryFields,
     airr_required : {PyTrue, PyFalse, "TRUE", "FALSE", NaN},
     airr_nullable : {PyTrue, PyFalse}]

\* Mappings of up to MaxFields rows, each repository field in one row.
Schemas ==
    UNION { { rows \in [1..n -> SchemaRows] :
                \A i, j \in 1..n : rows[i].repository = rows[j].repository
                                      => i = j }
            : n \in 0..MaxFields }

\* Batches: any of the fields as a column that came with the data.
Batches ==
    UNION { [cols -> {Data}] : cols \in SUBSET RepositoryFields }

InitRequired ==
    /\ repertoires = <<>>
    /\ airr_map = AllMapped
    /\ ncalls = 0
    /\ call = NoCall
    /\ link = NoLink
    /\ sequences = <<>>
    /\ load = NoLoad
    /\ dataframe \in Batches
    /\ airr_fields \in Schemas
    /\ check = NoCheck
    /\ genes = NoGenes
    /\ coercion = NoCoercion
    /\ idcheck = NoIdCheck

\* One call of checkAIRRRequired on the batch, which it changes in place.
CheckAIRRRequiredCall ==
    /\ check.runs < MaxChecks
    /\ \E out \in {checkAIRRRequired(dataframe, airr_fields, 1)} :
           /\ dataframe' = out.dataframe
           /\ check' = [runs |-> check.runs + 1, pre |-> dataframe,
                        result |-> out.result]
    /\ UNCHANGED <<repertoires, airr_map, ncalls, call, link, sequences,
                   load, airr_fields, idcheck, coercion, genes>>

NextRequired == CheckAIRRRequiredCall

SpecRequired == InitRequired /\ [][NextRequired]_vars

\* The row marks its field required (as a boolean or as its string form).
MarkedRequired(row) == row.airr_required \in {PyTrue, "TRUE"}

\* The schema rows marked required whose field the batch lacked on entry.
MissingRequired ==
    { i \in 1..Len(airr_fields) :
        /\ MarkedRequired(airr_fields[i])
        /\ airr_fields[i].repository \notin DOMAIN check.pre }

\* The schema row is declared nullable.
Nullable(i) == airr_fields[i].airr_nullable = PyTrue

\* The columns the last call added to the batch.
AddedColumns == DOMAIN dataframe \ DOMAIN check.pre

-----------------------------------------------------------------------------
\* C11: required-field validation is idempotent: a call of checkAIRRRequired
\* on a batch for which the previous call returned True returns True again
\* and leaves the batch's columns and their values as they were.
C11_RequiredCheckIdempotent ==
    [][(check.runs > 0 /\ check.result) =>
           (check'.result /\ dataframe' = dataframe)]_vars

\* C11 witness: a second call has returned True on a batch that holds a
\* column the first call filled with nulls.
C11_Witness ==
    /\ check.runs = 2
    /\ check.result
    /\ dataframe = check.pre
    /\ \E c \in DOMAIN check.pre : check.pre[c] = NaN

-----------------------------------------------------------------------------
(* Rearrangement.checkIDFields *)

\* Repertoires loaded before a batch is checked.
MaxIdLoads == 2

\* A column holding the same value in each of n rows.
Broadcast(value, n) == [r \in 1..n |-> value]

\* The number of rows of a batch (a batch read from a file has a column).
NRows(df) == Len(df[CHOOSE c \in DOMAIN df : TRUE])

\* What one call leaves behind: the batch, the returned boolean and the
\* repository queries it issued.
IdChecked(df, result, queries) ==
    [dataframe |-> df, result |-> result, queries |-> queries]

\* A preset test that looks at the repertoire_id column only.
PresetFieldRepOnly(df, rep_id_field, data_id_field, sample_id_field) ==
    rep_id_field \in DOMAIN df

\* "We don't want to over write existing fields": one of the three
\* identifier fields is already a column of the batch.
PresetField(df, rep_id_field, data_id_field, sample_id_field) ==
    \/ rep_id_field \in DOMAIN df
    \/ data_id_field \in DOMAIN df
    \/ sample_id_field \in DOMAIN df

\* dataframe[field] = repertoire[field] if the record has the field, the
\* link identifier if not; nothing for a field without a mapping.
SetIDField(df, field, repertoire, repertoire_link_id) ==
    IF field = PyNone THEN df
    ELSE SetColumn(df, field,
                   Broadcast(IF field \in DOMAIN repertoire
                             THEN repertoire[field]
                             ELSE repertoire_link_id,
                             NRows(df)))

\* A checkIDFields that leaves the sample_processing_id column out.
checkIDFieldsTwoFields(recs, df, repertoire_link_id) ==
    LET repertoire_link_field == getMapping(LinkField)
        rep_id_field == getMapping("repertoire_id")
        data_id_field == getMapping("data_processing_id")
        sample_id_field == getMapping("sample_processing_id")
        query == [field |-> repertoire_link_field,
                  value |-> repertoire_link_id]
        found == getRepertoires(recs, repertoire_link_field,
                                repertoire_link_id)
        repertoire == found[1]
    IN  IF PresetField(df, rep_id_field, data_id_field, sample_id_field)
        THEN IdChecked(df, FALSE, <<>>)
        ELSE IF Len(found) # 1 THEN IdChecked(df, FALSE, <<query>>)
        ELSE IdChecked(
                 SetIDField(
                     SetIDField(df, rep_id_field, repertoire,
                                repertoire_link_id),
                     data_id_field, repertoire, repertoire_link_id),
                 TRUE, <<query>>)

\* checkIDFields(dataframe, repertoire_link_id) on the collection recs.
checkIDFields(recs, df, repertoire_link_id) ==
    LET repertoire_link_field == getMapping(LinkField)
        rep_id_field == getMapping("repertoire_id")
        data_id_field == getMapping("data_processing_id")
        sample_id_field == getMapping("sample_processing_id")
        query == [field |-> repertoire_link_field,
                  value |-> repertoire_link_id]
        found == getRepertoires(recs, repertoire_link_field,
                                repertoire_link_id)
        repertoire == found[1]
    IN  IF PresetField(df, rep_id_field, data_id_field, sample_id_field)
        THEN IdChecked(df, FALSE, <<>>)
        ELSE IF Len(found) # 1 THEN IdChecked(df, FALSE, <<query>>)
        ELSE IdChecked(
                 SetIDField(
                     SetIDField(
                         SetIDField(df, rep_id_field, repertoire,
                                    repertoire_link_id),
                         data_id_field, repertoire, repertoire_link_id),
                     sample_id_field, repertoire, repertoire_link_id),
                 TRUE, <<query>>)

\* Repertoire documents loaded before the batches are checked.
IdLoadDocs ==
    { Doc(rep, data, Absent, FileNone) :
        rep \in {"A", "B"}, data \in {Absent, "A"} }

\* Batches of one or more rows with a data column, with or without columns
\* named as the identifier fields.
IdBatches ==
    UNION { [cols \cup {"v_call"} -> {Broadcast(Data, n)}] :
              cols \in SUBSET {"repertoire_id", "data_processing_id",
                               "sample_processing_id"},
              n \in 1..MaxRows }

\* Mappings with and without the optional identifier fields.
IdMaps ==
    {AllMapped, AllMapped \ {"data_processing_id"},
     AllMapped \ {"data_processing_id", "sample_processing_id"}}

InitIDFields ==
    /\ repertoires = <<>>
    /\ airr_map \in IdMaps
    /\ ncalls = 0
    /\ call = NoCall
    /\ link = NoLink
    /\ sequences = <<>>
    /\ load = NoLoad
    /\ dataframe \in IdBatches
    /\ airr_fields = <<>>
    /\ check = NoCheck
    /\ genes = NoGenes
    /\ coercion = NoCoercion
    /\ idcheck = NoIdCheck

\* A repertoire is loaded (insert mode).
IdLoadCall ==
    \E json_document \in IdLoadDocs :
        /\ ncalls < MaxIdLoads
        /\ RepertoireCall(json_document, FALSE, "none")

\* One call of checkIDFields on the batch, which it changes in place.
CheckIDFieldsCall ==
    \E repertoire_link_id \in 1..(Len(repertoires) + 1) :
        /\ Idle
        /\ idcheck.runs < MaxChecks
        /\ \E out \in {checkIDFields(repertoires, dataframe,
                                     repertoire_link_id)} :
               /\ dataframe' = out.dataframe
               /\ idcheck' = [runs |-> idcheck.runs + 1,
                              link_id |-> repertoire_link_id,
                              pre |-> dataframe, result |-> out.result,
                              queries |-> out.queries]
        /\ UNCHANGED <<repertoires, airr_map, ncalls, call, link, sequences,
                       load, airr_fields, check, coercion, genes>>

\* The loader is started again with another mapping file and a batch of
\* another file: the repository keeps the records that were written under
\* the mapping of before.
Restart ==
    /\ Idle
    /\ airr_map' \in IdMaps \ {airr_map}
    /\ dataframe' \in IdBatches
    /\ idcheck' = NoIdCheck
    /\ UNCHANGED <<repertoires, ncalls, call, link, sequences, load,
                   airr_fields, check, coercion, genes>>

NextIDFields == IdLoadCall \/ CheckIDFieldsCall \/ Restart \/ Return

SpecIDFields == InitIDFields /\ [][NextIDFields]_vars

\* The identifier fields that were columns of the batch handed to the call.
PresetIdFields ==
    { f \in IdFields : getMapping(f) \in DOMAIN idcheck.pre }

\* C12: if the incoming batch already has a column for the repository field
\* of repertoire_id, data_processing_id or sample_processing_id,
\* checkIDFields returns failure, leaves the batch as it was and issues no
\* repository query.
C12_PresetIdFieldRejected ==
    (idcheck.runs > 0 /\ PresetIdFields # {}) =>
        /\ ~idcheck.result
        /\ dataframe = idcheck.pre
        /\ idcheck.queries = <<>>

\* C12 witness: a batch whose only preset identifier column is
\* sample_processing_id was checked against the link identifier of a
\* repertoire the repository holds.
C12_Witness ==
    /\ idcheck.runs > 0
    /\ PresetIdFields = {"sample_processing_id"}
    /\ idcheck.link_id \in 1..Len(repertoires)

-----------------------------------------------------------------------------
(* Rearrangement.mapToRepositoryType *)
(* Here the batch is the sequence of its columns in frame order, each a   *)
(* name and the values of its rows; a value is a pair of its Python type   *)
(* and its text.                                                           *)

\* The repository types the coercion knows.
RepositoryTypes == {"boolean", "integer", "number", "string"}

\* The two record classes the type of a column is looked up in.
RearrangementClass == "Rearrangement"
IRRearrangementClass == "IR_Rearrangement"

\* A conversion that raised.
ConversionError == <<"error", "TypeError">>

\* Parser.to_boolean, to_integer, to_number, to_string on one value.
to_boolean(value) ==
    CASE value[1] = "bool" -> value
      [] value = <<"str", "1">> -> <<"bool", "True">>
      [] OTHER -> ConversionError

to_integer(value) ==
    CASE value[1] = "int" -> value
      [] value = <<"str", "1">> -> <<"int", "1">>
      [] value = <<"float", "1.5">> -> <<"int", "1">>
      [] value = <<"float", "1.0">> -> <<"int", "1">>
      [] OTHER -> ConversionError

to_number(value) ==
    CASE value[1] = "float" -> value
      [] value = <<"int", "1">> -> <<"float", "1.0">>
      [] value = <<"str", "1">> -> <<"float", "1.0">>
      [] OTHER -> ConversionError

to_string(value) == <<"str", value[2]>>

\* The conversion of one value to a repository type.
Convert(repo_type, value) ==
    CASE repo_type = "boolean" -> to_boolean(value)
      [] repo_type = "integer" -> to_integer(value)
      [] repo_type = "number" -> to_number(value)
      [] repo_type = "string" -> to_string(value)

\* column_data.apply(f): the converted column; the error of the first value
\* that raised, if one did.
Apply(repo_type, column_data) ==
    LET converted == [r \in 1..Len(column_data) |->
                          Convert(repo_type, column_data[r])]
    IN  IF \E r \in 1..Len(column_data) : converted[r] = ConversionError
        THEN ConversionError
        ELSE converted

\* airr_map.getMapping(column, repository_tag, tag, class): the cell of the
\* row of that class whose repository field is the column, None without one.
getTypeMapping(rows, column, tag, class) ==
    LET hits == { i \in 1..Len(rows) : rows[i].repository = column
                                        /\ rows[i].class = class }
    IN  IF hits = {} THEN PyNone ELSE rows[CHOOSE i \in hits : TRUE][tag]

\* What one call leaves behind: the batch and the returned boolean.
Coerced(df, result) == [dataframe |-> df, result |-> result]

\* The repository type of a column: looked up in the AIRR class and, when
\* the column has no AIRR type there, in the repository's own class.
RepositoryTypeOf(rows, column) ==
    LET airr_type == getTypeMapping(rows, column, "airr_type",
                                    RearrangementClass)
        repo_type == getTypeMapping(rows, column, "ir_repository_type",
                                    RearrangementClass)
    IN  IF airr_type = PyNone
        THEN getTypeMapping(rows, column, "ir_repository_type",
                            IRRearrangementClass)
        ELSE repo_type

\* A coercion that leaves a column it cannot convert as it is and goes on.
RECURSIVE mapToRepositoryTypeSkipErrors(_, _, _)
mapToRepositoryTypeSkipErrors(df, rows, i) ==
    IF i > Len(df) THEN Coerced(df, TRUE)
    ELSE LET repo_type == RepositoryTypeOf(rows, df[i].column)
         IN  IF df[i].data = <<>> THEN Coerced(df, FALSE)
             ELSE IF repo_type \notin RepositoryTypes
                     \/ Apply(repo_type, df[i].data) = ConversionError
             THEN mapToRepositoryTypeSkipErrors(df, rows, i + 1)
             ELSE mapToRepositoryTypeSkipErrors(
                      [df EXCEPT ![i].data = Apply(repo_type, df[i].data)],
                      rows, i + 1)

\* The loop over the columns from column i on.
RECURSIVE mapToRepositoryType(_, _, _)
mapToRepositoryType(df, rows, i) ==
    IF i > Len(df) THEN Coerced(df, TRUE)
    ELSE LET column == df[i].column
             column_data == df[i].data
             repo_type == RepositoryTypeOf(rows, column)
         IN  IF column_data = <<>>
             THEN Coerced(df, FALSE)       \* column_data.iloc[0]: IndexError
             ELSE IF repo_type \in RepositoryTypes
             THEN LET converted == Apply(repo_type, column_data)
                  IN  IF converted = ConversionError
                      THEN Coerced(df, FALSE)
                      ELSE mapToRepositoryType(
                               [df EXCEPT ![i].data = converted], rows, i + 1)
             ELSE mapToRepositoryType(df, rows, i + 1)

\* The columns of the batches, and the values of their cells.
CoerceColumns == <<"c1", "c2">>
CoerceValues == {<<"str", "1">>, <<"str", "x">>, <<"float", "1.5">>}

\* Batches of up to MaxRows rows, each column with any values.
CoerceBatches ==
    UNION { { [i \in 1..k |-> [column |-> CoerceColumns[i], data |-> d[i]]] :
                d \in [1..k -> [1..n -> CoerceValues]] } :
              k \in 0..Len(CoerceColumns), n \in 0..MaxRows }

\* The row of a column: of the AIRR class with an AIRR type, or of the
\* repository's own class without one, and its repository type.
TypeRows(column) ==
    { [repository |-> column, class |-> class,
       airr_type |-> IF class = RearrangementClass THEN "string" ELSE PyNone,
       ir_repository_type |-> t] :
        class \in {RearrangementClass, IRRearrangementClass},
        t \in RepositoryTypes }

\* Mappings with a row for the first column and with or without one for
\* the second.
TypeSchemas ==
    { <<r1>> : r1 \in TypeRows(CoerceColumns[1]) }
    \cup { <<r1, r2>> : r1 \in TypeRows(CoerceColumns[1]),
                        r2 \in TypeRows(CoerceColumns[2]) }

InitCoerce ==
    /\ repertoires = <<>>
    /\ airr_map = AllMapped
    /\ ncalls = 0
    /\ call = NoCall
    /\ link = NoLink
    /\ sequences = <<>>
    /\ load = NoLoad
    /\ dataframe \in CoerceBatches
    /\ airr_fields \in TypeSchemas
    /\ check = NoCheck
    /\ genes = NoGenes
    /\ idcheck = NoIdCheck
    /\ coercion = NoCoercion

\* One call of mapToRepositoryType on the batch, which it changes in place.
MapToRepositoryTypeCall ==
    /\ coercion.runs < MaxChecks
    /\ \E out \in {mapToRepositoryType(dataframe, airr_fields, 1)} :
           /\ dataframe' = out.dataframe
           /\ coercion' = [runs |-> coercion.runs + 1, pre |-> dataframe,
                           result |-> out.result]
    /\ UNCHANGED <<repertoires, airr_map, ncalls, call, link, sequences,
                   load, airr_fields, check, idcheck, genes>>

NextCoerce == MapToRepositoryTypeCall

SpecCoerce == InitCoerce /\ [][NextCoerce]_vars

\* The repository type the mapping declares for a column of the batch
\* handed to the call, None if it declares none.
DeclaredType(i) ==
    LET hits == { k \in 1..Len(airr_fields) :
                    airr_fields[k].repository = coercion.pre[i].column }
    IN  IF hits = {} THEN PyNone
        ELSE airr_fields[CHOOSE k \in hits : TRUE].ir_repository_type

\* The column has a declared repository type and one of its values cannot
\* be converted to it.
FailsConversion(i) ==
    /\ DeclaredType(i) \in RepositoryTypes
    /\ \E r \in 1..Len(coercion.pre[i].data) :
           Convert(DeclaredType(i), coercion.pre[i].data[r])
               = ConversionError

\* C13: mapToRepositoryType returns failure when the conversion of a column
\* raises, leaving that column and every later column as they were; it
\* returns success only if every column with a declared repository type
\* holds the converted values, so no batch with a column that failed
\* conversion is reported as a success.
C13_CoercionFailsAtFirstError ==
    coercion.runs > 0 =>
        LET n == Len(coercion.pre)
            failing == { i \in 1..n : FailsConversion(i) }
        IN  /\ Len(dataframe) = n
            /\ failing # {} =>
                   /\ ~coercion.result
                   /\ \A j \in 1..n :
                          (\E i \in failing : i <= j)
                              => dataframe[j] = coercion.pre[j]
            /\ coercion.result =>
                   \A i \in 1..n :
                       DeclaredType(i) \in RepositoryTypes =>
                           \A r \in 1..Len(coercion.pre[i].data) :
                               dataframe[i].data[r] =
                                   Convert(DeclaredType(i),
                                           coercion.pre[i].data[r])

\* C13 witness: the first column was converted, the second could not be,
\* and the call returned failure.
C13_Witness ==
    /\ coercion.runs = 1
    /\ ~coercion.result
    /\ Len(coercion.pre) = 2
    /\ ~FailsConversion(1)
    /\ FailsConversion(2)
    /\ dataframe[1] # coercion.pre[1]

-----------------------------------------------------------------------------
(* Gene-call decomposition: Rearrangement.setGene, setGeneGene,            *)
(* setGeneFamily, getLocus.  A string is the sequence of its characters;   *)
(* a value is its Python type and, for a string, its text.                 *)

\* Tokens joined into one gene-call string.
MaxTokens == 2

\* re.split(',| |\|', gene)
Delimiters == {",", " ", "|"}

\* The tokens of s from character i on; cur is the token being read.
RECURSIVE SplitFrom(_, _, _)
SplitFrom(s, i, cur) ==
    IF i > Len(s) THEN <<cur>>
    ELSE IF s[i] \in Delimiters THEN <<cur>> \o SplitFrom(s, i + 1, <<>>)
    ELSE SplitFrom(s, i + 1, Append(cur, s[i]))

Split(s) == SplitFrom(s, 1, <<>>)

\* set(gene_string)
ToSet(seq) == { seq[i] : i \in 1..Len(seq) }

\* list(set(...)): the set's elements in one of the orders a set can have.
Orderings(S) ==
    { order \in [1..Cardinality(S) -> S] :
        \A i, j \in 1..Cardinality(S) : order[i] = order[j] => i = j }

\* current_gene.startswith(prefix)
StartsWith(s, prefix) ==
    Len(s) >= Len(prefix) /\ SubSeq(s, 1, Len(prefix)) = prefix

\* ch in s
Contains(s, ch) == \E i \in 1..Len(s) : s[i] = ch

\* s[0:n]
Slice(s, n) == SubSeq(s, 1, IF Len(s) < n THEN Len(s) ELSE n)

\* The loop over gene_orig_list from entry i on, appending that keeps every
\* hyphenated token as it is.
RECURSIVE KeepGenesNoPrefix(_, _, _)
KeepGenesNoPrefix(gene_orig_list, locus_with_chain, i) ==
    IF i > Len(gene_orig_list) THEN <<>>
    ELSE LET current_gene == gene_orig_list[i]
             rest == KeepGenesNoPrefix(gene_orig_list, locus_with_chain, i + 1)
         IN  IF StartsWith(current_gene, <<"I", "G">>)
                \/ StartsWith(current_gene, <<"T", "R">>)
                \/ Contains(current_gene, "-")
             THEN <<current_gene>> \o rest
             ELSE rest

\* The loop over gene_orig_list from entry i on: the gene_list it builds.
RECURSIVE KeepGenes(_, _, _)
KeepGenes(gene_orig_list, locus_with_chain, i) ==
    IF i > Len(gene_orig_list) THEN <<>>
    ELSE LET current_gene == gene_orig_list[i]
             rest == KeepGenes(gene_orig_list, locus_with_chain, i + 1)
         IN  IF StartsWith(current_gene, <<"I", "G">>)
                \/ StartsWith(current_gene, <<"T", "R">>)
             THEN <<current_gene>> \o rest
             ELSE IF Contains(current_gene, "-")
             THEN <<locus_with_chain \o current_gene>> \o rest
             ELSE rest

\* setGene(gene), with gene_orig_list the order list(set(...)) gave.
setGene(gene, gene_orig_list) ==
    IF gene.type # "str" \/ gene.text = <<>> THEN <<>>
    ELSE KeepGenes(gene_orig_list, Slice(gene.text, 4), 1)

\* re.search found nothing.
NoMatch == <<PyNone>>

\* re.search('([^E]*)[T]', s).group(1) for a set E of excluded characters
\* and a set T of terminators within E: the match starts at the leftmost
\* position from which the first character in E is one in T, and the group
\* is what lies between.  Here from position i on.
RECURSIVE RegexSearch(_, _, _, _)
RegexSearch(s, excluded, terminators, i) ==
    IF i > Len(s) THEN NoMatch
    ELSE LET stops == { k \in i..Len(s) : s[k] \in excluded }
             stop == CHOOSE k \in stops : \A m \in stops : k <= m
         IN  IF stops # {} /\ s[stop] \in terminators
             THEN SubSeq(s, i, stop - 1)
             ELSE RegexSearch(s, excluded, terminators, i + 1)

\* A facet loop that appends every value, seen before or not.
RECURSIVE FacetNoDedup(_, _, _, _, _)
FacetNoDedup(gene_array, excluded, terminators, i, facet) ==
    IF i > Len(gene_array) THEN facet
    ELSE LET gene == gene_array[i]
             pattern == RegexSearch(gene, excluded, terminators, 1)
             value == IF pattern = NoMatch THEN gene ELSE pattern
         IN  FacetNoDedup(gene_array, excluded, terminators, i + 1,
                          Append(facet, value))

\* The loop shared by setGeneGene and setGeneFamily from entry i on: the
\* group of the match, or the entry itself without a match, is appended
\* unless the list already holds it.
RECURSIVE Facet(_, _, _, _, _)
Facet(gene_array, excluded, terminators, i, facet) ==
    IF i > Len(gene_array) THEN facet
    ELSE LET gene == gene_array[i]
             pattern == RegexSearch(gene, excluded, terminators, 1)
             value == IF pattern = NoMatch THEN gene ELSE pattern
         IN  Facet(gene_array, excluded, terminators, i + 1,
                   IF value \in ToSet(facet) THEN facet
                   ELSE Append(facet, value))

\* setGeneGene: re.search('([^\*]*)\*', gene)
setGeneGene(gene_array) == Facet(gene_array, {"*"}, {"*"}, 1, <<>>)

\* setGeneFamily: re.search('([^\*^-]*)[\*\-]', gene); the class excludes
\* '*', '^' and '-'.
setGeneFamily(gene_array) ==
    Facet(gene_array, {"*", "^", "-"}, {"*", "-"}, 1, <<>>)

\* What getLocus leaves behind: the locus and the warnings it printed.
Locus(final_locus, warnings) ==
    [locus |-> final_locus, warnings |-> warnings]

\* A locus scan in which a later valid entry replaces the locus.
RECURSIVE ScanLocusLast(_, _, _, _)
ScanLocusLast(v_call_array, i, final_locus, warnings) ==
    IF i > Len(v_call_array) THEN Locus(final_locus, warnings)
    ELSE LET v_call == v_call_array[i]
         IN  IF Len(v_call) > 3
             THEN ScanLocusLast(v_call_array, i + 1, Slice(v_call, 3),
                                IF Len(final_locus) = 3
                                   /\ Slice(v_call, 3) # final_locus
                                THEN Append(warnings, "inconsistent")
                                ELSE warnings)
             ELSE ScanLocusLast(v_call_array, i + 1, final_locus,
                                Append(warnings, "invalid"))

\* The loop of getLocus over the v_calls from entry i on.
RECURSIVE ScanLocus(_, _, _, _)
ScanLocus(v_call_array, i, final_locus, warnings) ==
    IF i > Len(v_call_array) THEN Locus(final_locus, warnings)
    ELSE LET v_call == v_call_array[i]
         IN  IF Len(final_locus) # 3
             THEN IF Len(v_call) > 3
                  THEN ScanLocus(v_call_array, i + 1, Slice(v_call, 3),
                                 warnings)
                  ELSE ScanLocus(v_call_array, i + 1, final_locus,
                                 Append(warnings, "invalid"))
             ELSE IF Slice(v_call, 3) # final_locus
             THEN ScanLocus(v_call_array, i + 1, final_locus,
                            Append(warnings, "inconsistent"))
             ELSE ScanLocus(v_call_array, i + 1, final_locus, warnings)

\* getLocus(v_call_array): the scan, then the check of the locus found.
getLocus(v_call_array) ==
    LET scan == ScanLocus(v_call_array, 1, <<>>, <<>>)
        final_locus == scan.locus
    IN  IF Len(final_locus) = 3
           /\ Slice(final_locus, 2) # <<"I", "G">>
           /\ Slice(final_locus, 2) # <<"T", "R">>
        THEN Locus(final_locus, Append(scan.warnings, "not IG or TR"))
        ELSE scan

\* Tokens an annotation tool writes into a gene-call cell: alleles of one
\* gene, the gene without allele, the gene without locus and chain, an
\* allele of another locus, fragments, an empty token.
GeneTokens ==
    { <<"I", "G", "H", "V", "3", "-", "2", "*", "1">>,
      <<"I", "G", "H", "V", "3", "-", "2", "*", "2">>,
      <<"I", "G", "H", "V", "3", "-", "2">>,
      <<"3", "-", "2">>,
      <<"I", "G", "K", "V", "1", "*", "1">>,
      <<"I", "G", "^", "H", "-", "1">>,
      <<"I", "G">>,
      <<"T", "R", "B">>,
      <<"N", "A">>,
      <<>> }

\* The strings of n tokens with a delimiter between neighbours.
RECURSIVE Joined(_)
Joined(n) ==
    IF n = 1 THEN GeneTokens
    ELSE { s \o <<d>> \o t : s \in Joined(n - 1), d \in Delimiters,
                             t \in GeneTokens }

\* The values of a gene-call cell: strings, and the values that are none.
GeneInputs ==
    { [type |-> "str", text |-> s] :
        s \in UNION { Joined(n) : n \in 1..MaxTokens } }
    \cup { [type |-> t, text |-> <<>>] : t \in {"NoneType", "float", "int"} }

InitGene ==
    /\ repertoires = <<>>
    /\ airr_map = AllMapped
    /\ ncalls = 0
    /\ call = NoCall
    /\ link = NoLink
    /\ sequences = <<>>
    /\ load = NoLoad
    /\ dataframe = EmptyDoc
    /\ airr_fields = <<>>
    /\ check = NoCheck
    /\ idcheck = NoIdCheck
    /\ coercion = NoCoercion
    /\ genes \in { [NoGenes EXCEPT !.pc = "input", !.input = gene] :
                     gene \in GeneInputs }

GeneUnchanged ==
    UNCHANGED <<repertoires, airr_map, ncalls, call, link, sequences, load,
                dataframe, airr_fields, check, idcheck, coercion>>

\* A setGene that cannot be applied to a value that is not a string.
SetGeneCallStringsOnly ==
    /\ genes.pc = "input"
    /\ genes.input.type = "str"
    /\ \E gene_orig_list \in Orderings(ToSet(Split(genes.input.text))) :
           genes' = [genes EXCEPT !.pc = "call",
                                  !.order = gene_orig_list,
                                  !.call = setGene(genes.input,
                                                   gene_orig_list)]
    /\ GeneUnchanged

\* setGene on the value; the set of its tokens comes in any order.
SetGeneCall ==
    /\ genes.pc = "input"
    /\ \E gene_orig_list \in Orderings(ToSet(Split(genes.input.text))) :
           genes' = [genes EXCEPT !.pc = "call",
                                  !.order = gene_orig_list,
                                  !.call = setGene(genes.input,
                                                   gene_orig_list)]
    /\ GeneUnchanged

SetGeneGeneCall ==
    /\ genes.pc = "call"
    /\ genes' = [genes EXCEPT !.pc = "gene",
                              !.gene = setGeneGene(genes.call)]
    /\ GeneUnchanged

SetGeneFamilyCall ==
    /\ genes.pc = "gene"
    /\ genes' = [genes EXCEPT !.pc = "family",
                              !.family = setGeneFamily(genes.call)]
    /\ GeneUnchanged

GetLocusCall ==
    /\ genes.pc = "family"
    /\ \E out \in {getLocus(genes.call)} :
           genes' = [genes EXCEPT !.pc = "done", !.locus = out.locus,
                                  !.warnings = out.warnings]
    /\ GeneUnchanged

NextGene ==
    SetGeneCall \/ SetGeneGeneCall \/ SetGeneFamilyCall \/ GetLocusCall

SpecGene == InitGene /\ [][NextGene]_vars

\* setGene, setGeneGene and setGeneFamily on the same value once more.  The
\* order list(set(...)) gives is fixed by the hashes of the strings: within
\* one interpreter process it is the order of the first evaluation, in
\* another run of the loader the hash seed is drawn anew and the order is
\* any.
SetGeneAgainCall ==
    /\ genes.pc = "done"
    /\ \E same_process \in BOOLEAN :
       \E gene_orig_list \in (IF same_process THEN {genes.order}
                              ELSE Orderings(ToSet(Split(genes.input.text)))) :
           LET again == setGene(genes.input, gene_orig_list) IN
           genes' = [genes EXCEPT
                        !.pc = "again",
                        !.again = [same_process |-> same_process,
                                   call |-> again,
                                   gene |-> setGeneGene(again),
                                   family |-> setGeneFamily(again)]]
    /\ GeneUnchanged

NextGeneTwice == NextGene \/ SetGeneAgainCall

SpecGeneTwice == InitGene /\ [][NextGeneTwice]_vars

\* The decomposition of a cell runs on: apply calls the next function as soon
\* as the one before has returned.
SpecGeneFair == SpecGene /\ WF_vars(NextGene)

-----------------------------------------------------------------------------
\* The tokens of the input string, and whether one carries a locus marker.
InputTokens == ToSet(Split(genes.input.text))

HasLocusMarker(t) ==
    Len(t) >= 2 /\ (<<t[1], t[2]>> = <<"I", "G">> \/ <<t[1], t[2]>> = <<"T", "R">>)

HasHyphen(t) == \E i \in 1..Len(t) : t[i] = "-"

\* The first four characters of the input string.
InputPrefix ==
    [i \in 1..(IF Len(genes.input.text) < 4 THEN Len(genes.input.text) ELSE 4)
        |-> genes.input.text[i]]

\* The entries of a sequence, and whether one occurs twice.
Entries(seq) == { seq[i] : i \in 1..Len(seq) }

NoRepeats(seq) == \A i, j \in 1..Len(seq) : seq[i] = seq[j] => i = j

\* C14: the call array setGene returns consists exactly of each token of the
\* input (split on comma, space or pipe) that starts with IG or TR,
\* unchanged, and each other token that contains a hyphen, prefixed with the
\* first 4 characters of the input; every other token is dropped, so an
\* input without such tokens, and a non-string or missing input, gives the
\* empty array.
C14_SetGeneKeepsAndPrefixes ==
    genes.pc \notin {"idle", "input"} =>
        IF genes.input.type # "str"
        THEN genes.call = <<>>
        ELSE LET kept == { t \in InputTokens : HasLocusMarker(t) }
                 prefixed == { t \in InputTokens :
                                 ~HasLocusMarker(t) /\ HasHyphen(t) }
             IN  /\ Entries(genes.call) =
                        kept \cup { InputPrefix \o t : t \in prefixed }
                 /\ Len(genes.call) = Cardinality(kept \cup prefixed)

\* C14 witness: an input with a token that was kept, a token that was
\* prefixed and a call array holding both.
C14_Witness ==
    /\ genes.pc = "call"
    /\ genes.input.type = "str"
    /\ \E t \in InputTokens : HasLocusMarker(t) /\ HasHyphen(t)
    /\ \E t \in InputTokens :
           /\ ~HasLocusMarker(t)
           /\ HasHyphen(t)
           /\ InputPrefix \o t \in Entries(genes.call)
           /\ t \notin Entries(genes.call)

\* C15: the call array setGene returns holds no allele identifier twice.
C15_SetGeneDeduplicated ==
    genes.pc \notin {"idle", "input"} => NoRepeats(genes.call)

-----------------------------------------------------------------------------
\* The part of an entry before its first character in chars, the whole
\* entry when it has none.
RECURSIVE PrefixBefore(_, _)
PrefixBefore(entry, chars) ==
    IF entry = <<>> \/ Head(entry) \in chars THEN <<>>
    ELSE <<Head(entry)>> \o PrefixBefore(Tail(entry), chars)

\* A sequence without the later occurrences of its values.
RECURSIVE FirstSeen(_)
FirstSeen(seq) ==
    IF seq = <<>> THEN <<>>
    ELSE LET init == FirstSeen(SubSeq(seq, 1, Len(seq) - 1))
             last == seq[Len(seq)]
         IN  IF last \in Entries(init) THEN init ELSE Append(init, last)

\* The facet of the call array for a set of characters that end the prefix.
FacetOf(chars) ==
    FirstSeen([i \in 1..Len(genes.call) |->
                   PrefixBefore(genes.call[i], chars)])

\* C16: the gene facet is the call array with each entry replaced by its
\* prefix before the first '*' (the whole entry without one), repeated
\* values removed in first-seen order; no entry of it contains '*' and no
\* value appears twice.
C16_GeneFacet ==
    genes.pc \in {"gene", "family", "done"} =>
        /\ genes.gene = FacetOf({"*"})
        /\ \A i \in 1..Len(genes.gene) :
               \A k \in 1..Len(genes.gene[i]) : genes.gene[i][k] # "*"
        /\ NoRepeats(genes.gene)

\* C16 witness: two alleles of one gene gave a single gene.
C16_Witness ==
    /\ genes.pc = "gene"
    /\ Len(genes.call) = 2
    /\ genes.call[1] # genes.call[2]
    /\ Len(genes.gene) = 1
    /\ genes.gene[1] # genes.call[1]

\* C17: the family facet is the call array with each entry replaced by its
\* prefix before the first '*' or '-' (the whole entry without either),
\* repeated values removed in first-seen order; no entry of it contains '*'
\* or '-'.
C17_FamilyFacet ==
    genes.pc \in {"family", "done"} =>
        /\ genes.family = FacetOf({"*", "-"})
        /\ \A i \in 1..Len(genes.family) :
               \A k \in 1..Len(genes.family[i]) :
                   genes.family[i][k] \notin {"*", "-"}

-----------------------------------------------------------------------------
\* The entries of the call array that are valid v_calls, and the first.
ValidEntries == { i \in 1..Len(genes.call) : Len(genes.call[i]) > 3 }

FirstValid == CHOOSE i \in ValidEntries : \A j \in ValidEntries : i <= j

LocusPrefix(i) == <<genes.call[i][1], genes.call[i][2], genes.call[i][3]>>

Warned(w) == \E k \in 1..Len(genes.warnings) : genes.warnings[k] = w

\* C18: getLocus returns the first 3 characters of the first entry of the
\* call array longer than 3 characters, the empty string without such an
\* entry; later entries do not change it, whatever warnings are raised.
C18_LocusOfFirstValidEntry ==
    genes.pc = "done" =>
        IF ValidEntries = {} THEN genes.locus = <<>>
        ELSE genes.locus = LocusPrefix(FirstValid)

\* C18 witness: two valid entries of different loci; the locus is that of
\* the first and the inconsistency was warned of.
C18_Witness ==
    /\ genes.pc = "done"
    /\ ValidEntries = {1, 2}
    /\ LocusPrefix(1) # LocusPrefix(2)
    /\ genes.locus = LocusPrefix(1)
    /\ Warned("inconsistent")

\* C19: getLocus warns of inconsistent loci exactly when a valid entry after
\* the one that established the locus has other first 3 characters; entries
\* that are not valid cause no such warning.
C19_InconsistencyOnlyFromValidEntries ==
    genes.pc = "done" =>
        (Warned("inconsistent") <=>
            \E i \in ValidEntries :
                i > FirstValid /\ LocusPrefix(i) # LocusPrefix(FirstValid))

-----------------------------------------------------------------------------
\* The committed rearrangement records linked to a repertoire.
LinkedSequences(id) ==
    { i \in 1..Len(sequences) : sequences[i]["ir_project_sample_id"] = id }

\* The cached counts of the repertoire records with a link identifier.
CachedCounts(id) ==
    { repertoires[i]["ir_sequence_count"] :
        i \in { k \in 1..Len(repertoires) : repertoires[k]["_id"] = id } }

\* C20: when a file load completes successfully, the cached count of the
\* repertoire it resolved is the number of all committed rearrangement
\* records linked to that repertoire, those of earlier loads included: the
\* cached value is overwritten with the recount.
C20_CountRecomputedOnSuccess ==
    (load.pc = "done" /\ load.result) =>
        CachedCounts(load.sample_id)
            = {Cardinality(LinkedSequences(load.sample_id))}

\* C20 witness: a load that wrote records has completed for a repertoire
\* that had records of an earlier load.
C20_Witness ==
    /\ load.pc = "done"
    /\ load.result
    /\ load.total_records > 0
    /\ Cardinality(LinkedSequences(load.sample_id)) > load.total_records

-----------------------------------------------------------------------------
\* C21: when the mapping has no physical field for the rearrangement
\* file-name field, getRepertoireInfo returns the failure signal as an
\* ordinary return value, without raising an exception and without a
\* repository query.
C21_UnmappedFileFieldReturnsFailure ==
    (link.op = "getRepertoireInfo" /\ FileField \notin airr_map) =>
        /\ link.raised = ""
        /\ link.result = NoId
        /\ link.idarray = <<>>

-----------------------------------------------------------------------------
\* The step names of a chunk that was coerced, then validated, then written.
CoercedThenValidated(steps) ==
    \E i, j, k \in DOMAIN steps :
        /\ i < j /\ j < k
        /\ steps[i] = "mapToRepositoryType"
        /\ steps[j] = "checkAIRRRequired"
        /\ steps[k] = "insert_many"

\* C22: a chunk of a file load is handed to the repository only after its
\* types were coerced and then its required fields validated.
C22_ChunkWrittenAfterCoercionAndValidation ==
    ("insert_many" \in { load.steps[i] : i \in DOMAIN load.steps }) =>
        CoercedThenValidated(load.steps)

-----------------------------------------------------------------------------
\* A load that resolved its repertoire and then ended in an exception.
Aborted ==
    /\ load.pc = "done"
    /\ load.raised # ""
    /\ load.sample_id # NoId

\* The number of the chunk the load is at (the failing one, when aborted).
CurrentChunk == Len(load.file) - Len(load.chunks) + 1

RECURSIVE RowsOfChunks(_, _)
\* The number of rows in chunks 1..k of the file.
RowsOfChunks(file, k) ==
    IF k = 0 THEN 0 ELSE file[k] + RowsOfChunks(file, k - 1)

\* The records the load has added to the collection.
WrittenByLoad ==
    SubSeq(sequences, Len(load.pre_sequences) + 1, Len(sequences))

\* C23: when chunk k of a load fails, the collection holds what it held
\* before the load, then every record of chunks 1..k-1, then at most a part
\* of chunk k: nothing is rolled back and no later chunk is written.
C23_ChunksAreCommitBoundaries ==
    Aborted =>
        /\ Len(sequences) >= Len(load.pre_sequences)
        /\ SubSeq(sequences, 1, Len(load.pre_sequences)) = load.pre_sequences
        /\ Len(WrittenByLoad) >= RowsOfChunks(load.file, CurrentChunk - 1)
        /\ Len(WrittenByLoad) < RowsOfChunks(load.file, CurrentChunk)
        /\ WrittenByLoad = ChunkRecords(Len(WrittenByLoad), load.sample_id)

\* C23 witness: the second of three chunks failed after the first was
\* written.
C23_Witness ==
    /\ Aborted
    /\ Len(load.file) = 3
    /\ CurrentChunk = 2
    /\ Len(WrittenByLoad) >= load.file[1]

-----------------------------------------------------------------------------
\* C27: a file load resolves its repertoire once, when it opens.  If the
\* lookup does not give exactly one repertoire the load ends there: no
\* rearrangement record is written and no repertoire record (hence no cached
\* count) is changed.  Otherwise every record the load writes, in whichever
\* chunk, carries the identifier of that one repertoire.
C27_LinkageResolvedOncePerLoad ==
    (load.pc # "idle") =>
        /\ link.op = "processMiXcrFile"
        /\ IF Len(link.idarray) = 1 /\ link.raised = ""
           THEN /\ load.sample_id = link.idarray[1]
                /\ SubSeq(sequences, 1, Len(load.pre_sequences))
                       = load.pre_sequences
                /\ \A i \in DOMAIN WrittenByLoad :
                       WrittenByLoad[i]["ir_project_sample_id"] = link.idarray[1]
           ELSE /\ load.pc = "done"
                /\ load.sample_id = NoId
                /\ sequences = load.pre_sequences
                /\ repertoires = load.pre_repertoires

\* C27 witness: a load of three chunks has completed and wrote records.
C27_Witness ==
    /\ load.pc = "done"
    /\ load.result
    /\ Len(load.file) = 3
    /\ Len(WrittenByLoad) = RowsOfChunks(load.file, 3)
    /\ Len(link.idarray) = 1

-----------------------------------------------------------------------------
\* The cached count of a repertoire is below the number of committed
\* rearrangement records linked to it.
Stale(id) ==
    \E c \in CachedCounts(id) : c < Cardinality(LinkedSequences(id))

\* The step that ends a load of the repertoire successfully.
CompletesLoadOf(id) ==
    /\ load.pc = "chunks"
    /\ load.chunks = <<>>
    /\ load.sample_id = id
    /\ load'.pc = "done"
    /\ load'.result

\* While chunks are written the repertoire records are those of before the
\* load, and so they are after a load that aborted; if the aborted load had
\* committed a chunk, the cached count is below the number of linked records.
CountUntouchedUntilFinish ==
    /\ (load.pc = "chunks" \/ Aborted) => repertoires = load.pre_repertoires
    /\ (Aborted /\ CurrentChunk >= 2) => Stale(load.sample_id)

\* The cached count of a repertoire changes, and a count that is too small
\* stops being so, only in the step that completes a load of the repertoire.
CountWrittenOnlyAtFinish ==
    \A i \in 1..Len(repertoires) :
        LET id == repertoires[i]["_id"] IN
        /\ (i <= Len(repertoires') /\ repertoires'[i]["ir_sequence_count"]
                                        # repertoires[i]["ir_sequence_count"])
              => CompletesLoadOf(id)
        /\ (Stale(id) /\ ~Stale(id)') => CompletesLoadOf(id)

\* C29: the cached count is written once per load, after the last chunk; an
\* aborted load that committed a chunk leaves the count at its value of
\* before the load, below the number of linked records, until a later load
\* of the same repertoire completes.
C29_CountWrittenOncePerLoad ==
    []CountUntouchedUntilFinish /\ [][CountWrittenOnlyAtFinish]_vars

\* C29 witness: a load aborted in its second chunk for a repertoire whose
\* cached count had been set by an earlier load.
C29_Witness ==
    /\ Aborted
    /\ CurrentChunk >= 2
    /\ 0 \notin CachedCounts(load.sample_id)
    /\ Stale(load.sample_id)

-----------------------------------------------------------------------------
\* The value is a list.
IsList(v) == DOMAIN v = 1..Len(v)

\* The columns derived so far are lists, empty ones when the cell was empty
\* or not a string, and the locus is a string of no or three characters.
DecompositionYieldsLists ==
    /\ IsList(genes.call) /\ IsList(genes.gene) /\ IsList(genes.family)
    /\ (genes.input.type # "str" \/ genes.input.text = <<>>) =>
           (genes.call = <<>> /\ genes.gene = <<>> /\ genes.family = <<>>)
    /\ IsList(genes.locus) /\ Len(genes.locus) \in {0, 3}
    /\ (genes.call = <<>>) => genes.locus = <<>>

\* C24: the decomposition of a gene-call cell never aborts: whatever the
\* cell holds (a string, the empty string, nothing, a number) setGene,
\* setGeneGene, setGeneFamily and getLocus all return, the three columns
\* are lists (empty for an empty or non-string cell) and the locus is a
\* string.
C24_DecompositionNeverAborts ==
    []DecompositionYieldsLists /\ <>(genes.pc = "done")

\* C24 witness: the decomposition of a cell that holds no string is done.
C24_Witness ==
    /\ genes.pc = "done"
    /\ genes.input.type # "str"
    /\ genes.call = <<>>
    /\ genes.locus = <<>>

-----------------------------------------------------------------------------
\* C25: two evaluations of setGene on the same input return the same allele
\* identifiers in the same order, and so the gene and family facets derived
\* from them are the same sequences.
C25_SetGeneOrderStable ==
    (genes.pc = "again") =>
        /\ genes.again.call = genes.call
        /\ genes.again.gene = genes.gene
        /\ genes.again.family = genes.family

-----------------------------------------------------------------------------
\* The repertoire records for a link identifier.
RecordsLinked(id) ==
    { i \in 1..Len(repertoires) :
        FieldMatches(repertoires[i], getMapping(LinkField), id) }

\* The identifier fields with a repository mapping.
MappedIdFields == { f \in IdFields : getMapping(f) # PyNone }

\* Every row of the column holds what the record stores in the field, or the
\* link identifier if the record has no such field.
InjectedFrom(df, rec, field, id) ==
    /\ field \in DOMAIN df
    /\ \A r \in DOMAIN df[field] :
           IF field \in DOMAIN rec
           THEN df[field][r] \in {rec[field]}
           ELSE df[field][r] \in {id}

-----------------------------------------------------------------------------
\* The file-name value of a document or record; null when it has none.
FileOf(doc) ==
    IF PhysicalName(FileField) \in DOMAIN doc
    THEN doc[PhysicalName(FileField)] ELSE FileNone

\* The value is a file name: neither null nor empty.
NamesFile(file) == file # FileNone /\ file # <<>>

\* The records that hold the file-name value.
Holders(recs, file) == { i \in 1..Len(recs) : FileOf(recs[i]) = file }

\* No file name is held by two records.
UniqueFiles(recs) ==
    \A i, j \in 1..Len(recs) :
        (i # j /\ NamesFile(FileOf(recs[i]))) => FileOf(recs[i]) # FileOf(recs[j])

\* The records whose repertoire_id is that of the incoming document.
SameRepertoireId ==
    { i \in 1..Len(call.pre) :
        /\ "repertoire_id" \in DOMAIN call.doc
        /\ "repertoire_id" \in DOMAIN call.pre[i]
        /\ call.pre[i]["repertoire_id"] = call.doc["repertoire_id"] }

\* An insert of a document whose file name a record holds is rejected with
\* no write whatever its identifiers are; an insert of a document with a
\* null or empty file name and no identifiers goes through; a resolution on
\* a repository without shared file names never finds several records; an
\* update that names one record goes through whoever holds its file name.
FileNameRule ==
    /\ (call.op = "insert" /\ NamesFile(FileOf(call.doc))
            /\ Holders(call.pre, FileOf(call.doc)) # {}) =>
          /\ call.result = NoId
          /\ call.raised = ""
          /\ call.writes = <<>>
          /\ repertoires = call.pre
    /\ (call.op = "insert" /\ ~NamesFile(FileOf(call.doc))
            /\ FileField \in airr_map /\ call.fault = "none"
            /\ "repertoire_id" \notin DOMAIN call.doc) =>
          /\ call.result # NoId
          /\ Len(repertoires) = Len(call.pre) + 1
    /\ (link.op = "getRepertoireInfo" /\ UniqueFiles(repertoires)) =>
          Len(link.idarray) <= 1
    /\ (call.op = "update" /\ call.fault = "none"
            /\ Cardinality(SameRepertoireId) = 1) =>
          call.result # NoId

\* Only a call in update mode gives a file name a second holder.
OnlyUpdateSharesFileNames ==
    (UniqueFiles(repertoires) /\ ~UniqueFiles(repertoires')) =>
        call'.op = "update"

\* C28: in insert mode a document whose file-name field is non-empty and
\* matches that of an existing record is rejected with no write, before the
\* identifiers are compared; a null or empty file name skips the test.  So
\* insert-mode calls never give a file name two holders and its resolution
\* never finds more than one record.  Update mode does not apply the test.
C28_FileNameHeldOnce ==
    []FileNameRule /\ [][OnlyUpdateSharesFileNames]_vars

\* C28 witness: an insert of a document without identifiers was rejected
\* because a record held its file name.
C28_Witness ==
    /\ call.op = "insert"
    /\ call.fault = "none"
    /\ "repertoire_id" \notin DOMAIN call.doc
    /\ NamesFile(FileOf(call.doc))
    /\ Holders(call.pre, FileOf(call.doc)) # {}
    /\ call.result = NoId

====
